---- MODULE Spec2Model ----
(***************************************************************************)
(* Model of the harvesting orchestrator of src/src/main.py                 *)
(* (EcommerceScraper.scrape_all_platforms, _scrape_platform and            *)
(* retry_on_error) driven by the MockScraper of src/test_retry_logic.py    *)
(* and by two bounded families of arbitrary sources.                       *)
(***************************************************************************)
EXTENDS Integers, Sequences, FiniteSets, TLC

(***************************************************************************)
(* Program constants.                                                      *)
(***************************************************************************)
max_attempts == 20

min_per_platform == 5

max_retries == 20

(***************************************************************************)
(* Bounds of the model (not program constants).                            *)
(***************************************************************************)
\* "page" sources: number of distinct items in a source's catalogue.
CatalogSize == 6

\* "page" sources: largest number of items one search returns.
MaxYield == 2

\* "dup" sources: largest number of records one search returns.
MaxBatch == 2

\* "dup" sources: the records << item number, content >> a source can
\* return; two of them share a URL.
DupItems == {<< 1, 1 >>, << 1, 2 >>, << 2, 1 >>}

(***************************************************************************)
(* Configurations explored.                                                *)
(***************************************************************************)
MockTargets == {3, 10, 50}

\* The minPerSource of the configurations tried with MockScraper sources:
\* not given (0) and the floor of the spec's example.
MockFloors == {0, 3}

PageTargets == {4, 12}

DupTargets == {50}

MockTerms == {<< "iPhone" >>, << "iPhone", "case" >>}

\* The largest max_retries argument tried besides that of _scrape_platform.
MaxRetryArg == 3

\* Calls of _scrape_platform followed on one adapter.
MaxCalls == 2

\* retry_on_error's default delay, and the delay _scrape_platform passes.
default_delay == 1

scrape_delay == 2

\* The default max_retries of get_page_content.
default_fetch_retries == 3

\* The maxResults of the inputs that give one.
InputMaxResults == 5

\* run_mass_scraping: the cycle limit, the largest target of a run and the
\* longest list a term brings.
max_cycles == 10

MassMaxTarget == 3

MassMaxBatch == 2

VARIABLES
    scenario,            \* which kind of source adapters is plugged in
    scrapers,            \* self.scrapers.keys(), in insertion order
    search_terms,        \* self.search_terms
    max_results,         \* self.max_results (target_total)
    min_per_source,      \* self.config['minPerSource'], 0 when not given
    call_count,          \* MockScraper.call_count, per platform
    served,              \* per platform: highest item number a source returned
    attempt,             \* round counter of the while loop
    platform_products,   \* platform -> accumulated list of products
    platforms_to_scrape, \* active platforms of the current round
    termIdx,             \* position of the for-loop over search_terms
    tasks,               \* coroutines created for the current term
    taskIdx,             \* position of the for-loop awaiting the tasks
    result,              \* value delivered by the awaited task, until merged
    retry,               \* retry_on_error's attempt number in the awaited task
    exhausted,           \* the awaited task ended with every invocation raising
    all_products,        \* the list returned by scrape_all_platforms
    pc,                  \* control point of scrape_all_platforms
    ever_added,          \* history: every record a merge has added to a list
    unmerged,            \* history: tasks created whose result is not merged
    dispatched           \* history: tasks awaited so far, per platform

orchVars == << scenario, scrapers, search_terms, max_results, min_per_source,
              call_count, served, attempt, platform_products,
              platforms_to_scrape, termIdx, tasks, taskIdx, result, retry,
              exhausted, all_products, pc, ever_added, unmerged, dispatched >>

\* Python's None.
None == [kind |-> "None"]

\* A call of _scrape_platform on one adapter: retry_on_error around
\* scrape_with_context.
VARIABLES
    roe_max_retries,     \* the max_retries argument
    roe_delay,           \* the delay argument, in seconds
    roe_succeeds_at,     \* the invocation at which func returns, 0: never
    roe_attempt,         \* the loop variable attempt, 0 before the loop
    roe_calls,           \* invocations of func in this call
    roe_slept,           \* seconds spent in asyncio.sleep in this call
    roe_last_exception,  \* last_exception
    roe_outcome,         \* "pending", "returned" or "raised"
    roe_result,          \* what retry_on_error returned or raised
    sp_result,           \* what _scrape_platform returned
    sp_call,             \* number of the call on the adapter
    session,             \* the adapter's session: "none", "open", "closed"
    opened,              \* sessions opened on the adapter so far
    closed,              \* sessions closed on the adapter so far
    roe_pc               \* control point of the call

retryVars == << roe_max_retries, roe_delay, roe_succeeds_at, roe_attempt,
               roe_calls, roe_slept, roe_last_exception, roe_outcome,
               roe_result, sp_result, sp_call, session, opened, closed,
               roe_pc >>

\* A run of main() up to the call of scrape_all_platforms.
VARIABLES
    raw_input,           \* what Actor.get_input() returns
    actor_input,         \* actor_input
    m_scrapers,          \* the keys of scraper.scrapers, in insertion order
    m_max_per_platform,  \* max_per_platform of initialize_scrapers
    m_called,            \* scrape_all_platforms has been called
    m_error,             \* the exception that ended main()
    m_pc                 \* control point of main()

mainVars == << raw_input, actor_input, m_scrapers, m_max_per_platform,
              m_called, m_error, m_pc >>

\* A call of BaseScraper.get_page_content.
VARIABLES
    f_session,           \* self.session: "none", "open" or "closed"
    f_max_retries,       \* the max_retries argument
    f_attempt,           \* the loop variable attempt
    f_log,               \* what the call did: header updates, delays, gets
    f_outcomes,          \* how each attempt ended
    f_return,            \* what the call returned
    f_pc                 \* control point of the call

fetchVars == << f_session, f_max_retries, f_attempt, f_log, f_outcomes,
               f_return, f_pc >>

(***************************************************************************)
(* The state of one call of MassScrapingManager.run_mass_scraping.         *)
(***************************************************************************)
VARIABLES
    target_products,     \* config["target_products"]
    ms_search_terms,     \* config["search_terms"]
    total_products,      \* self.total_products
    ms_all_products,     \* self.all_products
    cycle_count,         \* cycle_count
    term_i,              \* terms of the cycle the for loop has passed
    term_count,          \* term_count
    successful_searches, \* stats["successful_searches"]
    failed_searches,     \* stats["failed_searches"]
    stats_total,         \* stats["total_products"]
    ms_pc                \* idle, while, for, scrape, pause, cycle_end, done

massVars == << target_products, ms_search_terms, total_products,
              ms_all_products, cycle_count, term_i, term_count,
              successful_searches, failed_searches, stats_total, ms_pc >>

vars == << orchVars, retryVars, mainVars, fetchVars, massVars >>

\* What the steps of scrape_all_platforms leave alone.
outside == << retryVars, mainVars, fetchVars, massVars >>

\* What the steps of a _scrape_platform call leave alone.
outsideRetry == << orchVars, mainVars, fetchVars, massVars >>

\* What the steps of main() leave alone.
outsideMain == << orchVars, retryVars, fetchVars, massVars >>

\* What the steps of get_page_content leave alone.
outsideFetch == << orchVars, retryVars, mainVars, massVars >>

\* What the steps of run_mass_scraping leave alone.
outsideMass == << orchVars, retryVars, mainVars, fetchVars >>

\* The history variables, for the steps that leave them alone.
history == << ever_added, unmerged, dispatched >>

config == << scenario, scrapers, search_terms, max_results, min_per_source >>

(***************************************************************************)
(* Helpers on sequences.                                                   *)
(***************************************************************************)
Range(s) == {s[i] : i \in 1..Len(s)}

Max(S) == CHOOSE x \in S : \A y \in S : y <= x

RECURSIVE SumLen(_, _)
SumLen(f, ps) ==
    IF ps = << >> THEN 0 ELSE Len(f[Head(ps)]) + SumLen(f, Tail(ps))

RECURSIVE Concat(_, _)
Concat(f, ps) ==
    IF ps = << >> THEN << >> ELSE f[Head(ps)] \o Concat(f, Tail(ps))

SeqsUpTo(S, n) == UNION {[1..k -> S] : k \in 0..n}

(***************************************************************************)
(* Records.  A product carries its URL, its other content (v) and the      *)
(* platform that produced it.                                              *)
(***************************************************************************)
Product(url, v, platform) == [url |-> url, v |-> v, platform |-> platform]

\* Product.to_dict / MockProduct.to_dict: the dictionary of the fields.
ToDict(p) == [url |-> p.url, v |-> p.v, platform |-> p.platform]

\* The canonical key of a product: p.to_dict().get('url', '').
ProductUrl(p) == ToDict(p).url

(***************************************************************************)
(* Sources.                                                                *)
(***************************************************************************)
MockYield(platform) ==
    IF platform = "amazon" THEN 3 ELSE IF platform = "ebay" THEN 2 ELSE 0

\* MockScraper.search_products on its c-th call.
MockBatch(platform, c) ==
    [i \in 1..MockYield(platform) |->
        Product(<< platform, (i - 1) + (c - 1) * MockYield(platform) >>,
                i - 1, platform)]

\* A "page" source returns a window of its catalogue that starts at or
\* before the first item it has not returned yet.
PageBatches(platform) ==
    {[i \in 1..k |-> Product(<< "item", s + i >>, 1, platform)] :
        << s, k >> \in {sk \in (0..served[platform]) \X (0..MaxYield) :
                           sk[1] + sk[2] <= CatalogSize}}

\* A "dup" source returns any short list over a few records, several of
\* which share a URL.
DupBatches(platform) ==
    SeqsUpTo({Product(<< "item", d[1] >>, d[2], platform) : d \in DupItems},
             MaxBatch)

\* The url of a product for which no link was found: url = "".
NoUrl == << "", 0 >>

\* A "nourl" source returns any short list over two different records
\* without URL and one record with a URL.
NoUrlBatches(platform) ==
    SeqsUpTo({Product(NoUrl, 1, platform), Product(NoUrl, 2, platform),
              Product(<< "item", 1 >>, 1, platform)}, MaxBatch)

\* What scraper.search_products(search_term) may return.
Supply(platform) ==
    CASE scenario = "mock" -> {MockBatch(platform, call_count[platform] + 1)}
      [] scenario = "page" -> PageBatches(platform)
      [] scenario = "dup"  -> DupBatches(platform)
      [] scenario = "nourl" -> NoUrlBatches(platform)

\* What the search in progress returns: MockScraper has counted the call
\* and built its list before it waits.
InFlight(platform) ==
    IF scenario = "mock"
    THEN {MockBatch(platform, call_count[platform])}
    ELSE Supply(platform)

\* Whether scraper.search_products may raise.
MayRaise(platform) == scenario # "mock"

(***************************************************************************)
(* retry_on_error and _scrape_platform.                                    *)
(***************************************************************************)
\* for attempt in range(1, max_retries + 1): the first invocation
FirstTry == 1

\* Variant: one invocation more than max_retries.
RetryAgainInclusive(n) == n <= max_retries

\* if attempt < max_retries: sleep and invoke again
RetryAgain(n) == n < max_retries

\* except Exception: ... return [] in _scrape_platform
DefinitiveFailure == << >>

(***************************************************************************)
(* The dedup merge of scrape_all_platforms.                                *)
(***************************************************************************)
\* Variant: the URLs of every platform's list (a cross-source dedup).
ExistingUrlsAllPlatforms(platform) ==
    UNION {{ProductUrl(platform_products[q][i]) :
               i \in 1..Len(platform_products[q])} : q \in Range(scrapers)}

\* Variant: the URLs of the lists of all platforms.
ExistingUrlsOfAll(pp, platform) ==
    UNION {{ProductUrl(pp[q][i]) : i \in 1..Len(pp[q])} : q \in DOMAIN pp}

\* existing_urls, as a function of the lists pp
ExistingUrlsOf(pp, platform) ==
    {ProductUrl(pp[platform][i]) : i \in 1..Len(pp[platform])}

ExistingUrls(platform) == ExistingUrlsOf(platform_products, platform)

\* Variant: every record of the batch is taken as new.
RECURSIVE NewProductsFromNoCheck(_, _, _, _)
NewProductsFromNoCheck(res, i, existing_urls, new_products) ==
    IF i > Len(res) THEN new_products
    ELSE NewProductsFromNoCheck(res, i + 1, existing_urls,
                                Append(new_products, res[i]))

\* Variant: the URL of a record taken as new is not added to existing_urls.
RECURSIVE NewProductsFromNoAdd(_, _, _, _)
NewProductsFromNoAdd(res, i, existing_urls, new_products) ==
    IF i > Len(res) THEN new_products
    ELSE IF ProductUrl(res[i]) \notin existing_urls
         THEN NewProductsFromNoAdd(res, i + 1, existing_urls,
                                   Append(new_products, res[i]))
         ELSE NewProductsFromNoAdd(res, i + 1, existing_urls, new_products)

\* Variant: a record without URL is always taken as new.
RECURSIVE NewProductsFromUrlLessNew(_, _, _, _)
NewProductsFromUrlLessNew(res, i, existing_urls, new_products) ==
    IF i > Len(res) THEN new_products
    ELSE LET product_url == ProductUrl(res[i])
         IN  IF product_url = NoUrl \/ product_url \notin existing_urls
             THEN NewProductsFromUrlLessNew(res, i + 1,
                                            existing_urls \cup {product_url},
                                            Append(new_products, res[i]))
             ELSE NewProductsFromUrlLessNew(res, i + 1, existing_urls,
                                            new_products)

RECURSIVE NewProductsFrom(_, _, _, _)
NewProductsFrom(res, i, existing_urls, new_products) ==
    IF i > Len(res) THEN new_products
    ELSE LET product_url == ProductUrl(res[i])
         IN  IF product_url \notin existing_urls
             THEN NewProductsFrom(res, i + 1, existing_urls \cup {product_url},
                                  Append(new_products, res[i]))
             ELSE NewProductsFrom(res, i + 1, existing_urls, new_products)

NewProducts(platform, res) ==
    NewProductsFrom(res, 1, ExistingUrls(platform), << >>)

\* Variant: the list of the platform is replaced by the new records.
MergedOverwrite(platform, res) ==
    IF res # << >>
    THEN NewProducts(platform, res)
    ELSE platform_products[platform]

Merged(platform, res) ==
    IF res # << >>
    THEN platform_products[platform] \o NewProducts(platform, res)
    ELSE platform_products[platform]

\* The lists after the result res of platform is merged into the lists pp.
MergeInto(pp, platform, res) ==
    IF res # << >>
    THEN [pp EXCEPT ![platform] =
             @ \o NewProductsFrom(res, 1, ExistingUrlsOf(pp, platform),
                                  << >>)]
    ELSE pp

(***************************************************************************)
(* The quota check and the active set.                                     *)
(***************************************************************************)
TotalProducts == SumLen(platform_products, scrapers)

PlatformsWithMin ==
    Cardinality({p \in Range(scrapers) :
                    Len(platform_products[p]) >= min_per_platform})

\* Variant: the target or the floors suffice to stop.
QuotaReachedEither ==
    TotalProducts >= max_results \/ PlatformsWithMin = Len(scrapers)

QuotaReached ==
    TotalProducts >= max_results /\ PlatformsWithMin = Len(scrapers)

\* Variant: active only when under the floor and the target is unmet.
NeedsMoreBoth(platform) ==
    /\ Len(platform_products[platform]) < min_per_platform
    /\ TotalProducts < max_results

\* Variant: active only while the target is unmet.
NeedsMoreTargetOnly(platform) == TotalProducts < max_results

\* Variant: active only while under the floor.
NeedsMoreFloorOnly(platform) ==
    Len(platform_products[platform]) < min_per_platform

NeedsMore(platform) ==
    \/ Len(platform_products[platform]) < min_per_platform
    \/ TotalProducts < max_results

PlatformsToScrape == SelectSeq(scrapers, NeedsMore)

\* Variant: the active set is computed again for each search term.
TermTasksRecomputed == PlatformsToScrape

\* tasks of one search term: one coroutine per platform of the round's
\* active set that has a scraper.
TermTasks ==
    SelectSeq(platforms_to_scrape, LAMBDA p : p \in Range(scrapers))

\* Variant: one round too many.
LoopContinuesInclusive == attempt <= max_attempts

LoopContinues == attempt < max_attempts

NextAttempt == attempt + 1

\* The state of the i-th coroutine of the current term.
TaskState(i) ==
    IF pc \notin {"await", "running", "suspended", "merge"} \/ i < taskIdx
    THEN "finished"
    ELSE IF i > taskIdx \/ pc = "await" THEN "created"
    ELSE IF pc \in {"running", "suspended"} THEN "running"
    ELSE "finished"

\* Variant: a failed task ends the loop over the tasks of the term.
AfterTaskCancel(i, failed) == IF failed THEN Len(tasks) + 1 ELSE i + 1

\* The task loop goes on to the next task whatever the awaited task gave.
AfterTask(i, failed) == i + 1

(***************************************************************************)
(* Initial states.                                                         *)
(***************************************************************************)
\* No _scrape_platform call is followed.
RetryIdle ==
    /\ roe_max_retries = 0
    /\ roe_delay = 0
    /\ roe_succeeds_at = 0
    /\ roe_attempt = 0
    /\ roe_calls = 0
    /\ roe_slept = 0
    /\ roe_last_exception = None
    /\ roe_outcome = "idle"
    /\ roe_result = None
    /\ sp_result = None
    /\ sp_call = 0
    /\ session = "none"
    /\ opened = 0
    /\ closed = 0
    /\ roe_pc = "idle"

\* No call of get_page_content is followed.
FetchIdle ==
    /\ f_session = "none"
    /\ f_max_retries = 0
    /\ f_attempt = 0
    /\ f_log = << >>
    /\ f_outcomes = << >>
    /\ f_return = None
    /\ f_pc = "idle"

MassIdle ==
    /\ target_products = 0
    /\ ms_search_terms = << >>
    /\ total_products = 0
    /\ ms_all_products = << >>
    /\ cycle_count = 0
    /\ term_i = 0
    /\ term_count = 0
    /\ successful_searches = 0
    /\ failed_searches = 0
    /\ stats_total = 0
    /\ ms_pc = "idle"

\* No run of main() is followed.
MainIdle ==
    /\ raw_input = << >>
    /\ actor_input = << >>
    /\ m_scrapers = << >>
    /\ m_max_per_platform = 0
    /\ m_called = FALSE
    /\ m_error = ""
    /\ m_pc = "idle"

\* No run of scrape_all_platforms is followed.
OrchIdle ==
    /\ scenario = "idle"
    /\ scrapers = << >>
    /\ search_terms = << >>
    /\ max_results = 0
    /\ min_per_source = 0
    /\ call_count = << >>
    /\ served = << >>
    /\ attempt = 0
    /\ platform_products = << >>
    /\ platforms_to_scrape = << >>
    /\ termIdx = 0
    /\ tasks = << >>
    /\ taskIdx = 0
    /\ result = << >>
    /\ retry = 0
    /\ exhausted = FALSE
    /\ all_products = << >>
    /\ pc = "idle"
    /\ ever_added = {}
    /\ unmerged = {}
    /\ dispatched = << >>

Init ==
    /\ RetryIdle
    /\ MainIdle
    /\ FetchIdle
    /\ MassIdle
    /\ \/ /\ scenario = "mock"
          /\ scrapers = << "amazon", "ebay" >>
          /\ search_terms \in MockTerms
          /\ max_results \in MockTargets
          /\ min_per_source \in MockFloors
       \/ /\ scenario = "page"
          /\ scrapers \in {<< >>, << "amazon" >>, << "amazon", "ebay" >>}
          /\ search_terms \in {<< >>, << "iPhone" >>}
          /\ max_results \in PageTargets
          /\ min_per_source = 0
       \/ /\ scenario = "dup"
          /\ scrapers = << "amazon", "ebay" >>
          /\ search_terms = << "iPhone" >>
          /\ max_results \in DupTargets
          /\ min_per_source = 0
       \/ /\ scenario = "nourl"
          /\ scrapers = << "amazon" >>
          /\ search_terms = << "iPhone" >>
          /\ max_results \in DupTargets
          /\ min_per_source = 0
    /\ call_count = [p \in Range(scrapers) |-> 0]
    /\ served = [p \in Range(scrapers) |-> 0]
    /\ attempt = 0
    /\ platform_products = [p \in Range(scrapers) |-> << >>]
    /\ platforms_to_scrape = << >>
    /\ termIdx = 0
    /\ tasks = << >>
    /\ taskIdx = 0
    /\ result = << >>
    /\ retry = 0
    /\ exhausted = FALSE
    /\ all_products = << >>
    /\ pc = "loop"
    /\ ever_added = {}
    /\ unmerged = {}
    /\ dispatched = [p \in Range(scrapers) |-> 0]

(***************************************************************************)
(* Actions.                                                                *)
(***************************************************************************)
\* while attempt < max_attempts: ... if total >= target and all at min: break
QuotaMet ==
    /\ pc = "loop"
    /\ LoopContinues
    /\ QuotaReached
    /\ attempt' = NextAttempt
    /\ pc' = "compile"
    /\ UNCHANGED << outside, history, config, call_count, served,
                    platform_products, platforms_to_scrape, termIdx, tasks,
                    taskIdx, result, retry, exhausted, all_products >>

\* if not platforms_to_scrape: break
NoPlatforms ==
    /\ pc = "loop"
    /\ LoopContinues
    /\ ~QuotaReached
    /\ PlatformsToScrape = << >>
    /\ attempt' = NextAttempt
    /\ platforms_to_scrape' = << >>
    /\ pc' = "compile"
    /\ UNCHANGED << outside, history, config, call_count, served,
                    platform_products, termIdx, tasks, taskIdx, result,
                    retry, exhausted, all_products >>

\* the round goes on to the loop over the search terms
StartRound ==
    /\ pc = "loop"
    /\ LoopContinues
    /\ ~QuotaReached
    /\ PlatformsToScrape # << >>
    /\ attempt' = NextAttempt
    /\ platforms_to_scrape' = PlatformsToScrape
    /\ termIdx' = 1
    /\ pc' = "terms"
    /\ UNCHANGED << outside, history, config, call_count, served,
                    platform_products, tasks, taskIdx, result, retry,
                    exhausted, all_products >>

\* the while condition is false
LoopExhausted ==
    /\ pc = "loop"
    /\ ~LoopContinues
    /\ pc' = "compile"
    /\ UNCHANGED << outside, history, config, call_count, served, attempt,
                    platform_products, platforms_to_scrape, termIdx, tasks,
                    taskIdx, result, retry, exhausted, all_products >>

\* for search_term in self.search_terms: build the list of coroutines
CreateTasks ==
    /\ pc = "terms"
    /\ termIdx <= Len(search_terms)
    /\ tasks' = TermTasks
    /\ taskIdx' = 1
    /\ unmerged' = unmerged \cup
           {[round |-> attempt, term |-> termIdx, platform |-> tasks'[i]] :
               i \in 1..Len(tasks')}
    /\ pc' = "await"
    /\ UNCHANGED << outside, ever_added, dispatched, config, call_count,
                    served, attempt, platform_products, platforms_to_scrape,
                    termIdx, result, retry, exhausted, all_products >>

\* result = await task: the coroutine starts to run only now, with the
\* first invocation of retry_on_error
StartTask ==
    /\ pc = "await"
    /\ taskIdx <= Len(tasks)
    /\ retry' = FirstTry
    /\ dispatched' = [dispatched EXCEPT ![tasks[taskIdx]] = @ + 1]
    /\ pc' = "running"
    /\ UNCHANGED << outside, ever_added, unmerged, config, call_count, served,
                    attempt, platform_products, platforms_to_scrape, termIdx,
                    tasks, taskIdx, result, exhausted, all_products >>

\* MockScraper.search_products is called: it counts the call, builds its
\* list and waits in asyncio.sleep(0.5)
MockSearchCalled ==
    /\ pc = "running"
    /\ scenario = "mock"
    /\ call_count' = [call_count EXCEPT ![tasks[taskIdx]] = @ + 1]
    /\ pc' = "suspended"
    /\ UNCHANGED << outside, history, config, served, attempt,
                    platform_products, platforms_to_scrape, termIdx, tasks,
                    taskIdx, result, retry, exhausted, all_products >>

\* scraper.search_products returns: retry_on_error and _scrape_platform
\* return its products
SearchReturns ==
    /\ pc = IF scenario = "mock" THEN "suspended" ELSE "running"
    /\ LET p == tasks[taskIdx]
       IN  \E batch \in InFlight(p) :
              /\ result' = batch
              /\ served' = [served EXCEPT ![p] =
                               Max({@} \cup {batch[i].url[2] :
                                                i \in 1..Len(batch)})]
    /\ retry' = 0
    /\ exhausted' = FALSE
    /\ pc' = "merge"
    /\ UNCHANGED << outside, history, config, call_count, attempt,
                    platform_products, platforms_to_scrape, termIdx, tasks,
                    taskIdx, all_products >>

\* scraper.search_products raises and attempts remain: sleep, invoke again
SearchRaises ==
    /\ pc = "running"
    /\ MayRaise(tasks[taskIdx])
    /\ RetryAgain(retry)
    /\ retry' = retry + 1
    /\ UNCHANGED << outside, history, config, call_count, served, attempt,
                    platform_products, platforms_to_scrape, termIdx, tasks,
                    taskIdx, result, exhausted, all_products, pc >>

\* the last invocation raised too: retry_on_error re-raises,
\* _scrape_platform logs and returns []
SearchExhausted ==
    /\ pc = "running"
    /\ MayRaise(tasks[taskIdx])
    /\ ~RetryAgain(retry)
    /\ result' = DefinitiveFailure
    /\ retry' = 0
    /\ exhausted' = TRUE
    /\ pc' = "merge"
    /\ UNCHANGED << outside, history, config, call_count, served, attempt,
                    platform_products, platforms_to_scrape, termIdx, tasks,
                    taskIdx, all_products >>

\* if result: ... platform_products[platform].extend(new_products)
MergeResult ==
    /\ pc = "merge"
    /\ LET p == tasks[taskIdx]
       IN  /\ platform_products' =
                  [platform_products EXCEPT ![p] = Merged(p, result)]
           /\ ever_added' = ever_added \cup Range(NewProducts(p, result))
           /\ unmerged' = unmerged \
                  {[round |-> attempt, term |-> termIdx, platform |-> p]}
    /\ taskIdx' = AfterTask(taskIdx, exhausted)
    /\ result' = << >>
    /\ exhausted' = FALSE
    /\ pc' = "await"
    /\ UNCHANGED << outside, dispatched, config, call_count, served, attempt,
                    platforms_to_scrape, termIdx, tasks, retry,
                    all_products >>

\* every task of the term was awaited: next search term
EndTerm ==
    /\ pc = "await"
    /\ taskIdx > Len(tasks)
    /\ termIdx' = termIdx + 1
    /\ pc' = "terms"
    /\ UNCHANGED << outside, history, config, call_count, served, attempt,
                    platform_products, platforms_to_scrape, tasks, taskIdx,
                    result, retry, exhausted, all_products >>

\* every term was processed: sleep, back to the while condition
EndRound ==
    /\ pc = "terms"
    /\ termIdx > Len(search_terms)
    /\ pc' = "loop"
    /\ UNCHANGED << outside, history, config, call_count, served, attempt,
                    platform_products, platforms_to_scrape, termIdx, tasks,
                    taskIdx, result, retry, exhausted, all_products >>

\* all_products.extend([product.to_dict() for product in products])
Compile ==
    /\ pc = "compile"
    /\ all_products' =
           Concat([p \in Range(scrapers) |->
                      [i \in 1..Len(platform_products[p]) |->
                          ToDict(platform_products[p][i])]], scrapers)
    /\ pc' = "done"
    /\ UNCHANGED << outside, history, config, call_count, served, attempt,
                    platform_products, platforms_to_scrape, termIdx, tasks,
                    taskIdx, result, retry, exhausted >>

Next ==
    \/ QuotaMet
    \/ NoPlatforms
    \/ StartRound
    \/ LoopExhausted
    \/ CreateTasks
    \/ StartTask
    \/ MockSearchCalled
    \/ SearchReturns
    \/ SearchRaises
    \/ SearchExhausted
    \/ MergeResult
    \/ EndTerm
    \/ EndRound
    \/ Compile

Spec == Init /\ [][Next]_vars

\* The event loop keeps running the coroutine and every awaited call ends.
LiveSpec == Spec /\ WF_vars(Next)

(***************************************************************************)
(* The same run when an awaited search may never return.  _scrape_platform *)
(* awaits retry_on_error, which awaits search_products, and none of them   *)
(* bounds the wait: once a search hangs no step of the run is left.        *)
(***************************************************************************)
SearchHangs ==
    /\ pc = "running"
    /\ MayRaise(tasks[taskIdx])
    /\ pc' = "stuck"
    /\ UNCHANGED << outside, history, config, call_count, served, attempt,
                    platform_products, platforms_to_scrape, termIdx, tasks,
                    taskIdx, result, retry, exhausted, all_products >>

HangNext == Next \/ SearchHangs

HangSpec == Init /\ [][HangNext]_vars /\ WF_vars(HangNext)

(***************************************************************************)
(* retry_on_error around scrape_with_context, as _scrape_platform calls    *)
(* it, on one adapter.  The arguments max_retries and delay are drawn from *)
(* small sets and include those of _scrape_platform (20 and 2.0).  func    *)
(* raises at every invocation but the one numbered roe_succeeds_at.        *)
(***************************************************************************)
\* The value returned by the i-th invocation of func: a list of n products.
Value(i, n) == [kind |-> "list", by |-> i, products |-> n]

\* The exception raised by the i-th invocation of func.
Exc(i) == [kind |-> "Exception", by |-> i]

\* raise None
TypeError == [kind |-> "TypeError", by |-> 0]

\* The [] that _scrape_platform builds when retry_on_error raised.
EmptyList == [kind |-> "list", by |-> 0, products |-> 0]

RetryArgs == (-1 .. MaxRetryArg) \cup {max_retries}

SuccessAt == (0 .. MaxRetryArg + 1) \cup {max_retries}

Delays == {default_delay, scrape_delay}

\* Variant: the loop body runs once before max_retries is looked at.
InRangeAtLeastOnce(a) == a = 1 \/ (1 <= a /\ a < roe_max_retries + 1)

\* Variant: range(1, max_retries)
InRangeExclusive(a) == 1 <= a /\ a < roe_max_retries

\* for attempt in range(1, max_retries + 1)
InRange(a) == 1 <= a /\ a < roe_max_retries + 1

\* Variant: a sleep after every failed invocation.
SleepsAlways(a) == TRUE

\* if attempt < max_retries: await asyncio.sleep(delay)
Sleeps(a) == a < roe_max_retries

\* Variant: __aexit__ leaves the session open when the body raised.
AExitKeepsOnError(raised) == IF raised THEN "open" ELSE "closed"

\* BaseScraper.__aexit__: await self.session.aclose()
AExit(raised) == "closed"

\* raise last_exception
Raise(e) == IF e = None THEN TypeError ELSE e

RetryInit ==
    /\ OrchIdle
    /\ MainIdle
    /\ FetchIdle
    /\ MassIdle
    /\ roe_max_retries \in RetryArgs
    /\ roe_delay \in Delays
    /\ roe_succeeds_at \in SuccessAt
    /\ roe_attempt = 0
    /\ roe_calls = 0
    /\ roe_slept = 0
    /\ roe_last_exception = None
    /\ roe_outcome = "pending"
    /\ roe_result = None
    /\ sp_result = None
    /\ sp_call = 1
    /\ session = "none"
    /\ opened = 0
    /\ closed = 0
    /\ roe_pc = "loop"

\* The next iteration of the loop: func is invoked, async with scraper
\* enters the adapter's context and search_products is awaited.
Invoke ==
    /\ roe_pc = "loop"
    /\ InRange(roe_attempt + 1)
    /\ roe_attempt' = roe_attempt + 1
    /\ roe_calls' = roe_calls + 1
    /\ session' = "open"
    /\ opened' = opened + 1
    /\ roe_pc' = "search"
    /\ UNCHANGED << outsideRetry, roe_max_retries, roe_delay, roe_succeeds_at,
                    roe_slept, roe_last_exception, roe_outcome, roe_result,
                    sp_result, sp_call, closed >>

\* search_products returns or raises: "async with scraper" is left,
\* __aexit__ closes the session and waits in session.aclose(); nothing of
\* the invocation has reached retry_on_error yet.
LeaveContext ==
    /\ roe_pc = "search"
    /\ session' = AExit(roe_attempt # roe_succeeds_at)
    /\ closed' = closed + 1
    /\ roe_pc' = "aexit"
    /\ UNCHANGED << outsideRetry, roe_max_retries, roe_delay, roe_succeeds_at,
                    roe_attempt, roe_calls, roe_slept, roe_last_exception,
                    roe_outcome, roe_result, sp_result, sp_call, opened >>

\* func has returned: retry_on_error returns the result.
FuncReturns ==
    /\ roe_pc = "aexit"
    /\ roe_attempt = roe_succeeds_at
    /\ \E n \in 0..1 : roe_result' = Value(roe_attempt, n)
    /\ roe_outcome' = "returned"
    /\ roe_pc' = "end"
    /\ UNCHANGED << outsideRetry, roe_max_retries, roe_delay, roe_succeeds_at,
                    roe_attempt, roe_calls, roe_slept, roe_last_exception,
                    sp_result, sp_call, session, opened, closed >>

\* func has raised: the exception is kept and the delay is awaited when an
\* attempt remains.
FuncRaises ==
    /\ roe_pc = "aexit"
    /\ roe_attempt # roe_succeeds_at
    /\ roe_last_exception' = Exc(roe_attempt)
    /\ roe_slept' = IF Sleeps(roe_attempt) THEN roe_slept + roe_delay
                    ELSE roe_slept
    /\ roe_pc' = "loop"
    /\ UNCHANGED << outsideRetry, roe_max_retries, roe_delay, roe_succeeds_at,
                    roe_attempt, roe_calls, roe_outcome, roe_result,
                    sp_result, sp_call, session, opened, closed >>

\* The loop is over: raise last_exception.
RetryRaises ==
    /\ roe_pc = "loop"
    /\ ~InRange(roe_attempt + 1)
    /\ roe_result' = Raise(roe_last_exception)
    /\ roe_outcome' = "raised"
    /\ roe_pc' = "end"
    /\ UNCHANGED << outsideRetry, roe_max_retries, roe_delay, roe_succeeds_at,
                    roe_attempt, roe_calls, roe_slept, roe_last_exception,
                    sp_result, sp_call, session, opened, closed >>

\* _scrape_platform returns what retry_on_error returned, or [] when it
\* raised.
ScrapePlatformReturns ==
    /\ roe_pc = "end"
    /\ sp_result' = IF roe_outcome = "returned" THEN roe_result
                    ELSE EmptyList
    /\ roe_pc' = "returned"
    /\ UNCHANGED << outsideRetry, roe_max_retries, roe_delay, roe_succeeds_at,
                    roe_attempt, roe_calls, roe_slept, roe_last_exception,
                    roe_outcome, roe_result, sp_call, session, opened,
                    closed >>

\* The next call of _scrape_platform on the same adapter.
NextCall ==
    /\ roe_pc = "returned"
    /\ sp_call < MaxCalls
    /\ sp_call' = sp_call + 1
    /\ roe_succeeds_at' \in SuccessAt
    /\ roe_attempt' = 0
    /\ roe_calls' = 0
    /\ roe_slept' = 0
    /\ roe_last_exception' = None
    /\ roe_outcome' = "pending"
    /\ roe_result' = None
    /\ sp_result' = None
    /\ roe_pc' = "loop"
    /\ UNCHANGED << outsideRetry, roe_max_retries, roe_delay, session,
                    opened, closed >>

RetryNext ==
    \/ Invoke
    \/ LeaveContext
    \/ FuncReturns
    \/ FuncRaises
    \/ RetryRaises
    \/ ScrapePlatformReturns
    \/ NextCall

RetrySpec == RetryInit /\ [][RetryNext]_vars

(***************************************************************************)
(* main(): the input, its validation, the construction of the              *)
(* EcommerceScraper and initialize_scrapers, up to the call of             *)
(* scrape_all_platforms.  A key of the input is << >> when it is missing   *)
(* and << v >> when it maps to v; the input is << >> when get_input()      *)
(* returns None.                                                           *)
(***************************************************************************)
Dict(platforms, searchTerms, usePlaywright, maxResults) ==
    [platforms |-> platforms, searchTerms |-> searchTerms,
     usePlaywright |-> usePlaywright, maxResults |-> maxResults]

\* The dict main() uses when the input is None or empty.
DefaultInput ==
    Dict(<< << "amazon" >> >>, << << "smartphone" >> >>, << >>, << 50 >>)

PlatformLists ==
    {<< >>, << "amazon" >>, << "amazon", "ebay" >>, << "aliexpress" >>}

TermLists == {<< >>, << "smartphone" >>}

Optional(S) == {<< >>} \cup {<< v >> : v \in S}

RawInputs ==
    {<< >>} \cup
    {<< Dict(p, t, u, m) >> :
        p \in Optional(PlatformLists), t \in Optional(TermLists),
        u \in Optional(BOOLEAN), m \in Optional({InputMaxResults})}

\* dict.get(key, default)
Get(entry, default) == IF entry = << >> THEN default ELSE entry[1]

\* bool(d) of a dict: it has a key.
DictTruthy(d) ==
    \/ d.platforms # << >>
    \/ d.searchTerms # << >>
    \/ d.usePlaywright # << >>
    \/ d.maxResults # << >>

\* await Actor.get_input() or {...}
InputOrDefault(raw) ==
    IF raw # << >> /\ DictTruthy(raw[1]) THEN raw[1] ELSE DefaultInput

\* Variant: only a missing key fails the validation.
NotGivenMissingOnly(entry) == entry = << >>

\* not actor_input.get(key), for a key that holds a list
NotGiven(entry) == IF entry = << >> THEN TRUE ELSE entry[1] = << >>

\* The order in which initialize_scrapers tests the platforms.
TraditionalPlatforms == << "amazon", "ebay", "walmart", "etsy", "shopify" >>

\* The keys initialize_scrapers adds to self.scrapers.
InitializedScrapers(platforms, use_playwright) ==
    IF use_playwright
    THEN << "multi_platform" >> \o
         (IF "amazon" \in Range(platforms) THEN << "amazon_playwright" >>
          ELSE << >>)
    ELSE SelectSeq(TraditionalPlatforms, LAMBDA p : p \in Range(platforms))

MainInit ==
    /\ OrchIdle
    /\ RetryIdle
    /\ FetchIdle
    /\ MassIdle
    /\ raw_input \in RawInputs
    /\ actor_input = << >>
    /\ m_scrapers = << >>
    /\ m_max_per_platform = 0
    /\ m_called = FALSE
    /\ m_error = ""
    /\ m_pc = "get_input"

\* actor_input = await Actor.get_input() or {...}
GetInput ==
    /\ m_pc = "get_input"
    /\ actor_input' = << InputOrDefault(raw_input) >>
    /\ m_pc' = "validate"
    /\ UNCHANGED << outsideMain, raw_input, m_scrapers, m_max_per_platform,
                    m_called, m_error >>

\* if not actor_input.get('platforms'): raise ValueError(...)
RejectPlatforms ==
    /\ m_pc = "validate"
    /\ NotGiven(actor_input[1].platforms)
    /\ m_error' = "ValueError: platforms"
    /\ m_pc' = "error"
    /\ UNCHANGED << outsideMain, raw_input, actor_input, m_scrapers,
                    m_max_per_platform, m_called >>

\* if not actor_input.get('searchTerms'): raise ValueError(...)
RejectSearchTerms ==
    /\ m_pc = "validate"
    /\ ~NotGiven(actor_input[1].platforms)
    /\ NotGiven(actor_input[1].searchTerms)
    /\ m_error' = "ValueError: searchTerms"
    /\ m_pc' = "error"
    /\ UNCHANGED << outsideMain, raw_input, actor_input, m_scrapers,
                    m_max_per_platform, m_called >>

\* scraper = EcommerceScraper(actor_input)
Construct ==
    /\ m_pc = "validate"
    /\ ~NotGiven(actor_input[1].platforms)
    /\ ~NotGiven(actor_input[1].searchTerms)
    /\ m_pc' = "initialize"
    /\ UNCHANGED << outsideMain, raw_input, actor_input, m_scrapers,
                    m_max_per_platform, m_called, m_error >>

\* await scraper.initialize_scrapers()
InitializeScrapers ==
    /\ m_pc = "initialize"
    /\ LET platforms == Get(actor_input[1].platforms, TraditionalPlatforms)
           maxres == Get(actor_input[1].maxResults, 50)
           use_playwright == Get(actor_input[1].usePlaywright, TRUE)
       IN  IF Len(platforms) = 0
           THEN /\ m_error' = "ZeroDivisionError"
                /\ m_pc' = "error"
                /\ UNCHANGED << m_scrapers, m_max_per_platform >>
           ELSE /\ m_max_per_platform' = Max({1, maxres \div Len(platforms)})
                /\ m_scrapers' = InitializedScrapers(platforms, use_playwright)
                /\ m_pc' = "scrape"
                /\ UNCHANGED m_error
    /\ UNCHANGED << outsideMain, raw_input, actor_input, m_called >>

\* products = await scraper.scrape_all_platforms()
CallScrapeAll ==
    /\ m_pc = "scrape"
    /\ m_called' = TRUE
    /\ m_pc' = "scraping"
    /\ UNCHANGED << outsideMain, raw_input, actor_input, m_scrapers,
                    m_max_per_platform, m_error >>

MainNext ==
    \/ GetInput
    \/ RejectPlatforms
    \/ RejectSearchTerms
    \/ Construct
    \/ InitializeScrapers
    \/ CallScrapeAll

MainSpec == MainInit /\ [][MainNext]_vars

(***************************************************************************)
(* BaseScraper.get_page_content.  A text is the sequence of its            *)
(* characters; a response is a status code and a body, or the exception    *)
(* session.get raises (a transport error, a timeout, a closed session).    *)
(***************************************************************************)
\* The phrases get_page_content looks for in the body.
block_indicators ==
    {<< "c", "a", "p", "t", "c", "h", "a" >>,
     << "r", "o", "b", "o", "t" >>,
     << "b", "l", "o", "c", "k", "e", "d" >>,
     << "a", "c", "c", "e", "s", "s", " ", "d", "e", "n", "i", "e", "d" >>,
     << "s", "e", "c", "u", "r", "i", "t", "y", " ", "c", "h", "e", "c",
      "k" >>,
     << "u", "n", "u", "s", "u", "a", "l", " ", "t", "r", "a", "f", "f", "i",
      "c" >> }

\* The response bodies tried.
Bodies ==
    {<< "W", "e", "l", "c", "o", "m", "e" >>,
     << "C", "A", "P", "T", "C", "H", "A" >>,
     << "R", "o", "b", "o", "t", "s" >>,
     << "A", "c", "c", "e", "s", "s", " ", "D", "e", "n", "i", "e", "d" >>,
     << "u", "n", "b", "l", "o", "c", "k", "e", "d" >>,
     << "a", "c", "c", "e", "s", " ", "d", "e", "n", "i", "e", "d" >>,
     << >> }

UpperCase ==
    << "A", "B", "C", "D", "E", "F", "G", "H", "I", "J", "K", "L", "M", "N",
      "O", "P", "Q", "R", "S", "T", "U", "V", "W", "X", "Y", "Z" >>

LowerCase ==
    << "a", "b", "c", "d", "e", "f", "g", "h", "i", "j", "k", "l", "m", "n",
      "o", "p", "q", "r", "s", "t", "u", "v", "w", "x", "y", "z" >>

\* c.lower()
LowerChar(c) ==
    IF \E i \in 1..Len(UpperCase) : UpperCase[i] = c
    THEN LowerCase[CHOOSE i \in 1..Len(UpperCase) : UpperCase[i] = c]
    ELSE c

\* content.lower()
Lower(text) == [i \in 1..Len(text) |-> LowerChar(text[i])]

\* indicator in text
In(indicator, text) ==
    \E k \in 0..(Len(text) - Len(indicator)) :
        \A i \in 1..Len(indicator) : text[k + i] = indicator[i]

\* any(indicator in content.lower() for indicator in [...])
DetectionIndicated(content) ==
    \E indicator \in block_indicators : In(indicator, Lower(content))

\* The status codes tried: two of success, one below 200, one of the 3xx
\* and four errors.
StatusCodes == {100, 200, 204, 304, 403, 404, 429, 500}

\* Variant: raise_for_status() raises for the error statuses only.
RaisesForStatusErrorsOnly(status_code) == status_code >= 400

\* response.raise_for_status() raises for every status outside 200..299
RaisesForStatus(status_code) == status_code \notin 200..299

\* BeautifulSoup(content, 'html.parser')
Page(content) == [kind |-> "page", content |-> content]

\* What the call does, in order.
UpdateHeaders == [ev |-> "headers.update", min |-> 0, max |-> 0]

RandomDelay(min_seconds, max_seconds) ==
    [ev |-> "random_delay", min |-> min_seconds, max |-> max_seconds]

SessionGet == [ev |-> "session.get", min |-> 0, max |-> 0]

\* Variant: range(max_retries + 1)
InFetchRangeInclusive(a) == a < f_max_retries + 1

\* for attempt in range(max_retries)
InFetchRange(a) == a < f_max_retries

\* Variant: new headers but no delay before a further attempt.
BeforeGetNoDelay(a) == IF a > 0 THEN << UpdateHeaders >> ELSE << >>

\* Variant: a delay but no new headers before a further attempt.
BeforeGetNoHeaders(a) == IF a > 0 THEN << RandomDelay(3, 10) >> ELSE << >>

\* if attempt > 0: new headers and a delay of 3 to 10 seconds
BeforeGet(a) ==
    IF a > 0 THEN << UpdateHeaders, RandomDelay(3, 10) >> ELSE << >>

\* if attempt < max_retries - 1
AttemptsRemain(a) == a < f_max_retries - 1

\* The except clause: a delay of 2 to 8 seconds when attempts remain.
OnException(a) ==
    IF AttemptsRemain(a) THEN << RandomDelay(2, 8) >> ELSE << >>

FetchRetryArgs == 0..default_fetch_retries

FetchInit ==
    /\ OrchIdle
    /\ RetryIdle
    /\ MainIdle
    /\ MassIdle
    /\ f_session \in {"none", "open", "closed"}
    /\ f_max_retries \in FetchRetryArgs
    /\ f_attempt = 0
    /\ f_log = << >>
    /\ f_outcomes = << >>
    /\ f_return = [kind |-> "pending"]
    /\ f_pc = "entry"

\* if not self.session: return None
NoSession ==
    /\ f_pc = "entry"
    /\ f_session = "none"
    /\ f_return' = None
    /\ f_pc' = "done"
    /\ UNCHANGED << outsideFetch, f_session, f_max_retries, f_attempt, f_log,
                    f_outcomes >>

\* for attempt in range(max_retries)
EnterLoop ==
    /\ f_pc = "entry"
    /\ f_session # "none"
    /\ f_pc' = "loop"
    /\ UNCHANGED << outsideFetch, f_session, f_max_retries, f_attempt, f_log,
                    f_outcomes, f_return >>

\* A further attempt: new headers, then the call waits in
\* random_delay(3, 10).
RotateHeaders ==
    /\ f_pc = "loop"
    /\ InFetchRange(f_attempt)
    /\ f_attempt > 0
    /\ f_log' = f_log \o BeforeGet(f_attempt)
    /\ f_pc' = "pre_delay"
    /\ UNCHANGED << outsideFetch, f_session, f_max_retries, f_attempt,
                    f_outcomes, f_return >>

\* response = await self.session.get(url): the request is sent, at once in
\* the first attempt, after the delay in the further ones.
IssueGet ==
    /\ IF f_pc = "loop" THEN InFetchRange(f_attempt) /\ f_attempt = 0
       ELSE f_pc = "pre_delay"
    /\ f_log' = Append(f_log, SessionGet)
    /\ f_pc' = "get"
    /\ UNCHANGED << outsideFetch, f_session, f_max_retries, f_attempt,
                    f_outcomes, f_return >>

\* session.get raises: the except clause waits in random_delay(2, 8) when
\* attempts remain, else the loop is over.
GetRaises ==
    /\ f_pc = "get"
    /\ f_log' = f_log \o OnException(f_attempt)
    /\ f_outcomes' = Append(f_outcomes, "exception")
    /\ IF AttemptsRemain(f_attempt)
       THEN f_pc' = "post_delay" /\ UNCHANGED f_attempt
       ELSE f_pc' = "loop" /\ f_attempt' = f_attempt + 1
    /\ UNCHANGED << outsideFetch, f_session, f_max_retries, f_return >>

\* session.get is answered by 403 or 429: the call waits in its delay when
\* attempts remain, else raise_for_status raises into the except clause.
GetRefused ==
    /\ f_pc = "get"
    /\ f_session = "open"
    /\ \E status_code \in StatusCodes \cap {403, 429} :
           /\ f_log' = f_log \o
                  (IF AttemptsRemain(f_attempt)
                   THEN IF status_code = 403 THEN << RandomDelay(5, 15) >>
                        ELSE << RandomDelay(10, 30) >>
                   ELSE OnException(f_attempt))
           /\ f_outcomes' = Append(f_outcomes,
                                   IF status_code = 403 THEN "403" ELSE "429")
    /\ IF AttemptsRemain(f_attempt)
       THEN f_pc' = "post_delay" /\ UNCHANGED f_attempt
       ELSE f_pc' = "loop" /\ f_attempt' = f_attempt + 1
    /\ UNCHANGED << outsideFetch, f_session, f_max_retries, f_return >>

\* session.get is answered by another status for which raise_for_status
\* raises: the except clause, as when session.get raises.
GetFails ==
    /\ f_pc = "get"
    /\ f_session = "open"
    /\ \E status_code \in StatusCodes \ {403, 429} :
           RaisesForStatus(status_code)
    /\ f_log' = f_log \o OnException(f_attempt)
    /\ f_outcomes' = Append(f_outcomes, "http_error")
    /\ IF AttemptsRemain(f_attempt)
       THEN f_pc' = "post_delay" /\ UNCHANGED f_attempt
       ELSE f_pc' = "loop" /\ f_attempt' = f_attempt + 1
    /\ UNCHANGED << outsideFetch, f_session, f_max_retries, f_return >>

\* session.get is answered by a success status: the next attempt when the
\* body shows a block indicator and attempts remain, else the page is
\* returned.
GetSucceeds ==
    /\ f_pc = "get"
    /\ f_session = "open"
    /\ \E status_code \in StatusCodes, content \in Bodies :
           /\ ~RaisesForStatus(status_code)
           /\ f_outcomes' =
                  Append(f_outcomes,
                         IF DetectionIndicated(content) THEN "blocked"
                         ELSE "ok")
           /\ IF DetectionIndicated(content) /\ AttemptsRemain(f_attempt)
              THEN /\ f_attempt' = f_attempt + 1
                   /\ f_pc' = "loop"
                   /\ UNCHANGED f_return
              ELSE /\ f_return' = Page(content)
                   /\ f_pc' = "done"
                   /\ UNCHANGED f_attempt
    /\ UNCHANGED << outsideFetch, f_session, f_max_retries, f_log >>

\* the delay after a failed attempt is over: continue
DelayOver ==
    /\ f_pc = "post_delay"
    /\ f_attempt' = f_attempt + 1
    /\ f_pc' = "loop"
    /\ UNCHANGED << outsideFetch, f_session, f_max_retries, f_log,
                    f_outcomes, f_return >>

\* The loop is over: return None
GiveUp ==
    /\ f_pc = "loop"
    /\ ~InFetchRange(f_attempt)
    /\ f_return' = None
    /\ f_pc' = "done"
    /\ UNCHANGED << outsideFetch, f_session, f_max_retries, f_attempt, f_log,
                    f_outcomes >>

FetchNext ==
    \/ NoSession
    \/ EnterLoop
    \/ RotateHeaders
    \/ IssueGet
    \/ GetRaises
    \/ GetRefused
    \/ GetFails
    \/ GetSucceeds
    \/ DelayOver
    \/ GiveUp

FetchSpec == FetchInit /\ [][FetchNext]_vars

(***************************************************************************)
(* MassScrapingManager.run_mass_scraping: cycles over the search terms     *)
(* until the target is reached or the cycle limit is passed.               *)
(* scrape_term_all_platforms catches every error of the scrapers and       *)
(* returns the list of the products of all platforms, []  when none gave   *)
(* any.                                                                    *)
(***************************************************************************)
\* The products scrape_term_all_platforms may return for a term.
MassProducts == {[url |-> "a"], [url |-> "b"]}

MassBatches == SeqsUpTo(MassProducts, MassMaxBatch)

MassTerms == {<< >>, << "laptop" >>, << "laptop", "iphone" >>}

\* Variant: the limit is passed one cycle later.
CycleLimitReachedLate(c) == c > max_cycles + 1

\* if cycle_count > 10: break
CycleLimitReached(c) == c > max_cycles

\* Variant: the target is checked only before a cycle.
TargetReachedNever(total) == FALSE

\* if self.total_products >= target_products: break
TargetReached(total) == total >= target_products

\* Variant: the products of a term are counted, not stored.
ExtendedNot(all, products) == all

\* self.all_products.extend(products)
Extended(all, products) == all \o products

MassInit ==
    /\ OrchIdle
    /\ RetryIdle
    /\ MainIdle
    /\ FetchIdle
    /\ target_products \in 0..MassMaxTarget
    /\ ms_search_terms \in MassTerms
    /\ total_products = 0
    /\ ms_all_products = << >>
    /\ cycle_count = 1
    /\ term_i = 0
    /\ term_count = 0
    /\ successful_searches = 0
    /\ failed_searches = 0
    /\ stats_total = 0
    /\ ms_pc = "while"

\* while self.total_products < target_products: the condition is false;
\* the statistics are closed
WhileExit ==
    /\ ms_pc = "while"
    /\ ~(total_products < target_products)
    /\ stats_total' = total_products
    /\ ms_pc' = "done"
    /\ UNCHANGED << outsideMass, target_products, ms_search_terms,
                    total_products, ms_all_products, cycle_count, term_i,
                    term_count, successful_searches, failed_searches >>

\* the condition is true: the for loop over the search terms starts
EnterCycle ==
    /\ ms_pc = "while"
    /\ total_products < target_products
    /\ term_i' = 0
    /\ ms_pc' = "for"
    /\ UNCHANGED << outsideMass, target_products, ms_search_terms,
                    total_products, ms_all_products, cycle_count, term_count,
                    successful_searches, failed_searches, stats_total >>

\* the target was reached by an earlier term of the cycle: break
TargetBreak ==
    /\ ms_pc = "for"
    /\ term_i < Len(ms_search_terms)
    /\ TargetReached(total_products)
    /\ ms_pc' = "cycle_end"
    /\ UNCHANGED << outsideMass, target_products, ms_search_terms,
                    total_products, ms_all_products, cycle_count, term_i,
                    term_count, successful_searches, failed_searches,
                    stats_total >>

\* one search term: it is counted and scrape_term_all_platforms is awaited
DispatchTerm ==
    /\ ms_pc = "for"
    /\ term_i < Len(ms_search_terms)
    /\ ~TargetReached(total_products)
    /\ term_count' = term_count + 1
    /\ ms_pc' = "scrape"
    /\ UNCHANGED << outsideMass, target_products, ms_search_terms,
                    total_products, ms_all_products, cycle_count, term_i,
                    successful_searches, failed_searches, stats_total >>

\* if i < len(search_terms) - 1 and the target is not reached: a pause is
\* awaited before the next term; i is the index of the term just scraped
PausesAfter(i, total) ==
    i < Len(ms_search_terms) - 1 /\ total < target_products

\* scrape_term_all_platforms returns: what came is stored and counted
ScrapeTerm ==
    /\ ms_pc = "scrape"
    /\ \E products \in MassBatches :
           IF products # << >>
           THEN /\ ms_all_products' = Extended(ms_all_products, products)
                /\ total_products' = total_products + Len(products)
                /\ successful_searches' = successful_searches + 1
                /\ UNCHANGED failed_searches
           ELSE /\ failed_searches' = failed_searches + 1
                /\ UNCHANGED << ms_all_products, total_products,
                                successful_searches >>
    /\ term_i' = term_i + 1
    /\ ms_pc' = IF PausesAfter(term_i, total_products') THEN "pause"
                ELSE "for"
    /\ UNCHANGED << outsideMass, target_products, ms_search_terms,
                    cycle_count, term_count, stats_total >>

\* await asyncio.sleep(pause) is over: the next term
PauseOver ==
    /\ ms_pc = "pause"
    /\ ms_pc' = "for"
    /\ UNCHANGED << outsideMass, target_products, ms_search_terms,
                    total_products, ms_all_products, cycle_count, term_i,
                    term_count, successful_searches, failed_searches,
                    stats_total >>

\* the for loop has passed every term
ForEnd ==
    /\ ms_pc = "for"
    /\ term_i >= Len(ms_search_terms)
    /\ ms_pc' = "cycle_end"
    /\ UNCHANGED << outsideMass, target_products, ms_search_terms,
                    total_products, ms_all_products, cycle_count, term_i,
                    term_count, successful_searches, failed_searches,
                    stats_total >>

\* cycle_count += 1; if cycle_count > 10: break
CycleEnd ==
    /\ ms_pc = "cycle_end"
    /\ cycle_count' = cycle_count + 1
    /\ IF CycleLimitReached(cycle_count')
       THEN /\ stats_total' = total_products
            /\ ms_pc' = "done"
       ELSE /\ ms_pc' = "while"
            /\ UNCHANGED stats_total
    /\ UNCHANGED << outsideMass, target_products, ms_search_terms,
                    total_products, ms_all_products, term_i, term_count,
                    successful_searches, failed_searches >>

MassNext ==
    \/ WhileExit
    \/ EnterCycle
    \/ TargetBreak
    \/ DispatchTerm
    \/ ScrapeTerm
    \/ PauseOver
    \/ ForEnd
    \/ CycleEnd

MassSpec == MassInit /\ [][MassNext]_vars

(***************************************************************************)
(* Vocabulary of the properties.                                           *)
(***************************************************************************)
KeysOf(products) == {products[i].url : i \in 1..Len(products)}

NoDuplicateKey(products) ==
    \A i, j \in 1..Len(products) :
        i # j => products[i].url # products[j].url

IsPrefix(s, t) == Len(s) <= Len(t) /\ SubSeq(t, 1, Len(s)) = s

\* The records of a batch that are first for their key, the keys of seen
\* excluded, in the order of the batch.
FirstOccurrences(batch, seen) ==
    LET idx == {i \in 1..Len(batch) :
                   /\ batch[i].url \notin seen
                   /\ \A j \in 1..(i - 1) : batch[j].url # batch[i].url}
    IN  [k \in 1..Cardinality(idx) |->
            batch[CHOOSE i \in idx : Cardinality({j \in idx : j <= i}) = k]]

CountOf(platform) == Len(platform_products[platform])

InResult(platform) ==
    Cardinality({i \in 1..Len(all_products) :
                    all_products[i].platform = platform})

\* The run of the spec's example: MockScraper sources, one term, target 10.
MockRun10 ==
    scenario = "mock" /\ Len(search_terms) = 1 /\ max_results = 10

(***************************************************************************)
(* C1: under the fairness of LiveSpec (the event loop keeps running and    *)
(* every search call ends), scrape_all_platforms always returns, and the   *)
(* round counter is then at most max_attempts (20), whatever the sources   *)
(* return or raise.                                                        *)
(***************************************************************************)
C1_Terminates == <>(pc = "done" /\ attempt <= max_attempts)

\* A run that used its 20 rounds without any source giving a record.
C1_Witness ==
    /\ pc = "done"
    /\ attempt = max_attempts
    /\ Len(scrapers) = 2
    /\ \A p \in Range(scrapers) : platform_products[p] = << >>

(***************************************************************************)
(* C2: with MockScraper sources (3 and 2 new records per call), one term,  *)
(* target 10 and minPerSource = 3 in the configuration, the run ends with  *)
(* amazon = 6, ebay = 4 and two calls of each source.                      *)
(***************************************************************************)
C2_Original ==
    (MockRun10 /\ min_per_source = 3 /\ pc = "done") =>
        /\ CountOf("amazon") = 6
        /\ CountOf("ebay") = 4
        /\ call_count["amazon"] = 2
        /\ call_count["ebay"] = 2

(***************************************************************************)
(* C3: with MockScraper sources (every call gives new records), the result *)
(* returned holds at least min_per_platform records of every configured    *)
(* source and at least max_results records in all.                         *)
(***************************************************************************)
C3_Floor ==
    (scenario = "mock" /\ pc = "done") =>
        /\ \A p \in Range(scrapers) : InResult(p) >= min_per_platform
        /\ Len(all_products) >= max_results

\* A finished run in which ebay was still searched after the target was
\* reached, amazon being skipped.
C3_Witness ==
    /\ scenario = "mock"
    /\ pc = "done"
    /\ call_count["ebay"] > call_count["amazon"]
    /\ InResult("ebay") >= min_per_platform

(***************************************************************************)
(* C4: with at least one scraper, a break of the round loop (the loop is   *)
(* left in an iteration it entered) happens only with the total at or      *)
(* above the target and every source at or above its floor, and that       *)
(* iteration dispatches nothing.                                           *)
(***************************************************************************)
C4_EarlyExit ==
    [][(pc = "loop" /\ pc' = "compile" /\ attempt' # attempt
            /\ scrapers # << >>) =>
           /\ SumLen(platform_products, scrapers) >= max_results
           /\ \A p \in Range(scrapers) : CountOf(p) >= min_per_platform
           /\ UNCHANGED << call_count, tasks, taskIdx, platform_products >>]_vars

\* The loop was left by a break before the last round, two scrapers.
C4_Witness ==
    /\ pc = "compile"
    /\ attempt < max_attempts
    /\ Len(scrapers) = 2
    /\ scenario = "page"

(***************************************************************************)
(* C5: a round dispatches a source if and only if, at the start of the     *)
(* round, its count is below min_per_platform or the total is below the    *)
(* target; each term of the round creates one task per such source.        *)
(***************************************************************************)
C5_ActiveRule ==
    [][/\ (pc = "loop" /\ attempt' # attempt) =>
              \A p \in Range(scrapers) :
                  (pc' = "terms" /\ p \in Range(platforms_to_scrape'))
                      <=> \/ CountOf(p) < min_per_platform
                          \/ SumLen(platform_products, scrapers) < max_results
       /\ (pc = "terms" /\ pc' = "await") => tasks' = platforms_to_scrape
       /\ (pc = "terms" /\ pc' = "loop") => termIdx > Len(search_terms)
       /\ (pc = "await" /\ pc' = "terms") => taskIdx > Len(tasks)]_vars

\* A round in which amazon is skipped and ebay, under its floor, is not.
C5_Witness ==
    /\ pc = "running"
    /\ scrapers = << "amazon", "ebay" >>
    /\ platforms_to_scrape = << "ebay" >>
    /\ CountOf("amazon") >= min_per_platform
    /\ SumLen(platform_products, scrapers) >= max_results

(***************************************************************************)
(* C6: a task whose every invocation raised adds nothing to any list, and  *)
(* the loop goes on to the next task of the term; a term ends only when    *)
(* all its tasks were awaited, a round only when all terms were processed. *)
(***************************************************************************)
C6_FailureAbsorbed ==
    [][/\ (pc = "merge" /\ exhausted) =>
              /\ platform_products' = platform_products
              /\ pc' = "await"
              /\ tasks' = tasks
              /\ taskIdx' = taskIdx + 1
       /\ (pc = "await" /\ pc' # "await") =>
              \/ pc' = "running" /\ taskIdx <= Len(tasks)
              \/ pc' = "terms" /\ taskIdx = Len(tasks) + 1
       /\ (pc = "terms" /\ pc' = "loop") => termIdx = Len(search_terms) + 1]_vars

\* The first of two tasks failed for good: its sibling is still to come.
C6_Witness ==
    /\ pc = "merge"
    /\ exhausted
    /\ taskIdx = 1
    /\ Len(tasks) = 2

(***************************************************************************)
(* C7 as stated: the searches of all the active sources of a term are      *)
(* started before any of them has run to completion.                       *)
(***************************************************************************)
C7_AllStartedFirst ==
    pc \in {"await", "running", "suspended", "merge"} =>
        \A i, j \in 1..Len(tasks) :
            TaskState(i) = "finished" => TaskState(j) # "created"

(***************************************************************************)
(* C8: merging the batch that has just been merged once more adds nothing; *)
(* a batch all of whose keys are already in the source's list leaves the   *)
(* list as it is.                                                          *)
(***************************************************************************)
C8_Idempotent ==
    [][pc = "merge" =>
           LET p == tasks[taskIdx]
           IN  /\ NewProductsFrom(result, 1, KeysOf(platform_products'[p]),
                                  << >>) = << >>
               /\ KeysOf(result) \subseteq KeysOf(platform_products[p])
                      => platform_products'[p] = platform_products[p]]_vars

\* A batch whose records were all merged before is about to be merged.
C8_Witness ==
    /\ pc = "merge"
    /\ result # << >>
    /\ KeysOf(result) \subseteq KeysOf(platform_products[tasks[taskIdx]])

(***************************************************************************)
(* C9: no list ever holds two records with the same URL, a step only       *)
(* appends to a list, and a merge appends exactly the first record of the  *)
(* batch for each URL the list did not hold.                               *)
(***************************************************************************)
C9_FirstRetained ==
    [][/\ \A p \in Range(scrapers) :
              /\ NoDuplicateKey(platform_products'[p])
              /\ IsPrefix(platform_products[p], platform_products'[p])
       /\ pc = "merge" =>
              LET p == tasks[taskIdx]
              IN  platform_products'[p] =
                      platform_products[p] \o
                          FirstOccurrences(result,
                                           KeysOf(platform_products[p]))]_vars

\* A batch with two different records of one new URL is about to be merged.
C9_Witness ==
    /\ pc = "merge"
    /\ \E i, j \in 1..Len(result) :
           /\ i < j
           /\ result[i].url = result[j].url
           /\ result[i].v # result[j].v
           /\ result[i].url \notin KeysOf(platform_products[tasks[taskIdx]])

(***************************************************************************)
(* C10: a record of a batch whose URL is not in the list of the batch's    *)
(* own source is in that list after the merge, whatever the lists of the   *)
(* other sources hold.                                                     *)
(***************************************************************************)
C10_PerSource ==
    [][pc = "merge" =>
           LET p == tasks[taskIdx]
           IN  \A i \in 1..Len(result) :
                   result[i].url \notin KeysOf(platform_products[p])
                       => \E k \in 1..Len(platform_products'[p]) :
                              platform_products'[p][k].url = result[i].url]_vars

\* The returned list holds the same URL once for each of two platforms.
C10_Witness ==
    /\ pc = "done"
    /\ \E i, j \in 1..Len(all_products) :
           /\ all_products[i].url = all_products[j].url
           /\ all_products[i].platform # all_products[j].platform

(***************************************************************************)
(* C11: the list of every source only grows, and the list returned by      *)
(* scrape_all_platforms, after a quota exit or after the last round,       *)
(* holds exactly the records the merges of all rounds have added, each     *)
(* one once.                                                               *)
(***************************************************************************)
C11_NoLoss ==
    [][/\ \A p \in Range(scrapers) :
              IsPrefix(platform_products[p], platform_products'[p])
       /\ \A p \in Range(scrapers) :
              Range(platform_products'[p]) =
                  {r \in ever_added' : r.platform = p}
       /\ pc' = "done" =>
              /\ Range(all_products') = {ToDict(r) : r \in ever_added'}
              /\ Len(all_products') = Cardinality(ever_added')]_vars

\* The round budget ran out below the quota and records are returned.
C11_Witness ==
    /\ pc = "done"
    /\ attempt = max_attempts
    /\ ~QuotaReached
    /\ Len(all_products) >= 2
    /\ Cardinality(ever_added) = Len(all_products)

(***************************************************************************)
(* C20: no task of a term is created while a task of an earlier term or    *)
(* round is unmerged, no search starts while such a task is unmerged, and  *)
(* a round starts only when every task created so far is merged.           *)
(***************************************************************************)
C20_Sequential ==
    [][/\ (pc = "terms" /\ pc' = "await") => unmerged = {}
       /\ (pc = "await" /\ pc' = "running") =>
              \A t \in unmerged : t.round = attempt /\ t.term = termIdx
       /\ attempt' # attempt => unmerged = {}]_vars

\* The search of the second source runs for the second term of round 2.
C20_Witness ==
    /\ pc = "running"
    /\ attempt = 2
    /\ termIdx = 2
    /\ taskIdx = 2
    /\ unmerged = {[round |-> 2, term |-> 2, platform |-> tasks[2]]}

(***************************************************************************)
(* C12: when func raises at its first k-1 invocations and returns at the   *)
(* k-th, 1 <= k <= max_retries, retry_on_error returns the value of the    *)
(* k-th invocation and has invoked func exactly k times.                   *)
(***************************************************************************)
C12_ReturnsAtK ==
    (roe_pc \in {"end", "returned"} /\ roe_succeeds_at \in 1..roe_max_retries)
        => /\ roe_outcome = "returned"
           /\ roe_calls = roe_succeeds_at
           /\ roe_result.kind = "list"
           /\ roe_result.by = roe_succeeds_at

\* func returned at its last allowed invocation, the third of three.
C12_Witness ==
    /\ roe_pc = "end"
    /\ roe_max_retries = MaxRetryArg
    /\ roe_succeeds_at = MaxRetryArg
    /\ roe_outcome = "returned"
    /\ roe_calls = MaxRetryArg

(***************************************************************************)
(* C13: when func raises at every invocation and max_retries >= 1,         *)
(* retry_on_error invokes func exactly max_retries times and raises the    *)
(* exception of the last invocation; it has slept the delay once before    *)
(* every invocation but the first, and not after the last.                 *)
(***************************************************************************)
C13_RaisesLast ==
    (roe_succeeds_at \notin 1..roe_max_retries /\ roe_max_retries >= 1)
        => /\ roe_pc = "search" => roe_slept = (roe_calls - 1) * roe_delay
           /\ roe_pc \in {"end", "returned"} =>
                  /\ roe_outcome = "raised"
                  /\ roe_calls = roe_max_retries
                  /\ roe_result = Exc(roe_max_retries)
                  /\ roe_slept = (roe_max_retries - 1) * roe_delay

\* Three invocations raised, with the delay of _scrape_platform.
C13_Witness ==
    /\ roe_pc = "end"
    /\ roe_succeeds_at = 0
    /\ roe_max_retries = MaxRetryArg
    /\ roe_delay = scrape_delay
    /\ roe_outcome = "raised"
    /\ roe_calls = MaxRetryArg
    /\ roe_slept = (MaxRetryArg - 1) * scrape_delay

(***************************************************************************)
(* C19: every invocation of the search opens a session of the adapter, at  *)
(* a moment when none is open, and the session is closed when the          *)
(* invocation ends, by a return or by an exception: a session is open      *)
(* exactly while a search is awaited, so never two at once, and none is    *)
(* open between attempts, between calls or when the call has returned.     *)
(***************************************************************************)
C19_Sessions ==
    [][/\ roe_calls' > roe_calls => opened' = opened + 1
       /\ opened' > opened => session # "open" /\ session' = "open"
       /\ (session' = "open") <=> (roe_pc' = "search")
       /\ opened' - closed' = IF session' = "open" THEN 1 ELSE 0
       /\ roe_pc' = "returned" => opened' = closed']_vars

\* The second attempt of the second call on the adapter is searching.
C19_Witness ==
    /\ sp_call = 2
    /\ roe_pc = "search"
    /\ roe_attempt = 2
    /\ session = "open"
    /\ closed >= 2
    /\ opened = closed + 1

(***************************************************************************)
(* C14: a run whose input gives no platform or no search term ends in an   *)
(* error at the validation: no EcommerceScraper is built, no scraper is    *)
(* initialised and scrape_all_platforms is not called.  As stated, for     *)
(* every input, a missing input included.                                  *)
(***************************************************************************)
Lacks(entry) == IF entry = << >> THEN TRUE ELSE Len(entry[1]) = 0

InputLacks ==
    IF raw_input = << >> THEN TRUE
    ELSE Lacks(raw_input[1].platforms) \/ Lacks(raw_input[1].searchTerms)

StoppedAtValidation ==
    /\ m_pc \in {"get_input", "validate", "error"}
    /\ m_scrapers = << >>
    /\ ~m_called
    /\ m_pc = "validate" =>
           /\ ENABLED (RejectPlatforms \/ RejectSearchTerms)
           /\ ~ENABLED Construct
    /\ m_pc = "error" =>
           m_error \in {"ValueError: platforms", "ValueError: searchTerms"}

C14_Original == InputLacks => StoppedAtValidation

(***************************************************************************)
(* C14, amended: the same for every input that is a dict with at least one *)
(* key; a missing or empty input is replaced by the default configuration  *)
(* (platform amazon, term smartphone) and the run goes on.                 *)
(***************************************************************************)
C14_Amended ==
    (/\ raw_input # << >>
     /\ DictTruthy(raw_input[1])
     /\ InputLacks) => StoppedAtValidation

\* An input with a platform and an empty list of terms ended in the error.
C14_Witness ==
    /\ m_pc = "error"
    /\ raw_input # << >>
    /\ raw_input[1].platforms = << << "amazon" >> >>
    /\ raw_input[1].searchTerms = << << >> >>
    /\ m_error = "ValueError: searchTerms"
    /\ ~m_called

(***************************************************************************)
(* C15: with an empty scraper set the run of scrape_all_platforms does not *)
(* complete: it never reaches its return.                                  *)
(***************************************************************************)
C15_FailFast == scrapers = << >> => pc # "done"

(***************************************************************************)
(* C18: a run in which an awaited search never returns still goes on:      *)
(* whenever the run has not returned, a step of it is possible.            *)
(***************************************************************************)
C18_Completes == pc = "done" \/ ENABLED HangNext

(***************************************************************************)
(* C16: get_page_content never returns as a page a body that shows a block *)
(* indicator, at any attempt, and after an attempt that ended on such a    *)
(* body the headers are updated before the next session.get.               *)
(***************************************************************************)
GetPositions == {i \in 1..Len(f_log) : f_log[i] = SessionGet}

NthGet(n) ==
    CHOOSE i \in GetPositions :
        Cardinality({j \in GetPositions : j <= i}) = n

C16_BlockedNotReturned ==
    /\ f_return.kind = "page" => ~DetectionIndicated(f_return.content)
    /\ \A n \in 1..Len(f_outcomes) :
           (f_outcomes[n] = "blocked" /\ Cardinality(GetPositions) > n)
               => \E j \in NthGet(n)..NthGet(n + 1) :
                      f_log[j] = UpdateHeaders

(***************************************************************************)
(* C17: a call of get_page_content in which each of the max_retries        *)
(* attempts ended blocked, on 403, on 429 or on an exception of            *)
(* session.get returns None.                                               *)
(***************************************************************************)
Retryable == {"blocked", "403", "429", "exception"}

C17_ExhaustedReturnsNone ==
    (/\ f_pc = "done"
     /\ f_max_retries >= 1
     /\ Len(f_outcomes) = f_max_retries
     /\ \A n \in 1..Len(f_outcomes) : f_outcomes[n] \in Retryable)
        => f_return.kind = "None"

(***************************************************************************)
(* C22: in a call of get_page_content a randomized delay is waited between *)
(* any two consecutive session.get, however the earlier attempt ended.     *)
(***************************************************************************)
Between(n) == (NthGet(n) + 1)..(NthGet(n + 1) - 1)

C22_DelayBetweenGets ==
    \A n \in 1..(Cardinality(GetPositions) - 1) :
        \E j \in Between(n) : f_log[j].ev = "random_delay"

\* Attempts ended blocked, on 403, on 429, on another error status and on
\* an exception have each been followed by a further session.get.
C22_Witness ==
    /\ Cardinality(GetPositions) = 3
    /\ f_outcomes[1] = "blocked"
    /\ f_outcomes[2] \in {"403", "429", "http_error", "exception"}
    /\ f_log[NthGet(1) + 1] = UpdateHeaders

(***************************************************************************)
(* C23: after an attempt that ended blocked or on 403 with attempts        *)
(* remaining, the session's headers are updated and after that a           *)
(* randomized delay is waited before the next session.get; the call does   *)
(* not end before that next session.get.                                   *)
(***************************************************************************)
C23_RotationAfterBlock ==
    \A n \in 1..Len(f_outcomes) :
        (f_outcomes[n] \in {"blocked", "403"} /\ n < f_max_retries)
            => /\ f_pc = "done" => Cardinality(GetPositions) > n
               /\ Cardinality(GetPositions) > n =>
                      \E i, j \in Between(n) :
                          /\ i < j
                          /\ f_log[i] = UpdateHeaders
                          /\ f_log[j].ev = "random_delay"

\* A 403 then a blocked body, each followed by new headers and a delay.
C23_Witness ==
    /\ f_max_retries = 3
    /\ Len(f_outcomes) = 3
    /\ f_outcomes[1] = "403"
    /\ f_outcomes[2] = "blocked"
    /\ Cardinality(GetPositions) = 3
    /\ f_log[NthGet(2) + 1] = UpdateHeaders

(***************************************************************************)
(* C24: a call of get_page_content calls session.get at most max_retries   *)
(* times, ends at the first attempt that gives a page, and calls           *)
(* session.get not at all and returns None when no session was opened.     *)
(***************************************************************************)
C24_BoundedRequests ==
    /\ Cardinality(GetPositions) <= f_max_retries
    /\ Cardinality(GetPositions) =
           Len(f_outcomes) + (IF f_pc = "get" THEN 1 ELSE 0)
    /\ f_return.kind = "page" =>
           /\ f_pc = "done"
           /\ f_outcomes[Len(f_outcomes)] \in {"ok", "blocked"}
           /\ \A n \in 1..(Len(f_outcomes) - 1) : f_outcomes[n] # "ok"
    /\ (f_pc # "done" /\ Len(f_outcomes) > 0) =>
           f_outcomes[Len(f_outcomes)] # "ok"
    /\ f_session = "none" =>
           /\ f_log = << >>
           /\ f_pc = "done" => f_return = None

\* The third of three attempts gave the page.
C24_Witness ==
    /\ f_max_retries = default_fetch_retries
    /\ Cardinality(GetPositions) = default_fetch_retries
    /\ f_return.kind = "page"
    /\ f_outcomes[default_fetch_retries] = "ok"

(***************************************************************************)
(* C28: with max_retries <= 0 retry_on_error never invokes func and never  *)
(* returns a value: it ends by raising (the TypeError of 'raise None'),    *)
(* though func has not failed.                                             *)
(***************************************************************************)
C28_NoAttempts ==
    roe_max_retries <= 0
        => /\ roe_calls = 0
           /\ opened = 0
           /\ roe_last_exception = None
           /\ roe_outcome # "returned"
           /\ roe_pc \in {"end", "returned"} =>
                  /\ roe_outcome = "raised"
                  /\ roe_result = TypeError

\* A call with max_retries = 0 on a func that would return at once ended.
C28_Witness ==
    /\ roe_max_retries = 0
    /\ roe_succeeds_at = 1
    /\ roe_pc = "end"
    /\ roe_outcome = "raised"
    /\ roe_calls = 0

(***************************************************************************)
(* C29: with at least one scraper, whenever the quota check of a round     *)
(* fails the active set is not empty, so the 'no platforms to scrape' exit *)
(* is taken only with no scraper at all; that run awaits no task and       *)
(* returns the empty list.                                                 *)
(***************************************************************************)
C29_ActiveSetNonEmpty ==
    /\ (pc = "loop" /\ LoopContinues /\ ~QuotaReached /\ scrapers # << >>)
           => PlatformsToScrape # << >>
    /\ scrapers = << >> =>
           /\ pc \in {"loop", "compile", "done"}
           /\ tasks = << >>
           /\ unmerged = {}
           /\ DOMAIN dispatched = {}
           /\ all_products = << >>

\* A run without scrapers left the loop in its first round and returned.
C29_Witness ==
    /\ scrapers = << >>
    /\ max_results > 0
    /\ attempt = 1
    /\ pc = "done"
    /\ all_products = << >>

(***************************************************************************)
(* C26: the active set is computed once per round, from the counts at the  *)
(* start of the round, and every search term of the round gets one task    *)
(* for each platform of that set and for no other, each of them awaited,   *)
(* whatever the counts have become in the meantime.                        *)
(***************************************************************************)
C26_FixedActiveSet ==
    [][/\ platforms_to_scrape' # platforms_to_scrape => pc = "loop"
       /\ (pc = "loop" /\ pc' = "terms") =>
              platforms_to_scrape' = PlatformsToScrape
       /\ (pc = "terms" /\ pc' = "await") =>
              /\ tasks' = platforms_to_scrape
              /\ taskIdx' = 1
       /\ (pc = "await" /\ pc' = "running") =>
              dispatched' =
                  [dispatched EXCEPT ![platforms_to_scrape[taskIdx]] = @ + 1]
       /\ (pc = "merge" /\ pc' = "await") => taskIdx' = taskIdx + 1
       /\ (pc = "await" /\ pc' = "terms") =>
              /\ taskIdx = Len(platforms_to_scrape) + 1
              /\ termIdx' = termIdx + 1
       /\ (pc = "terms" /\ pc' = "loop") =>
              termIdx = Len(search_terms) + 1]_vars

\* The second term of a round runs a platform though the first term has
\* already brought the total to the target and every platform to its floor.
C26_Witness ==
    /\ termIdx = 2
    /\ pc = "running"
    /\ QuotaReached
    /\ ~NeedsMore(tasks[taskIdx])

(***************************************************************************)
(* C25: each awaited task invokes the platform's search at least once and  *)
(* at most max_retries times, one invocation after the other, and ends at  *)
(* the first invocation that returns, an empty list included; a platform   *)
(* gets at most one task per round and search term, so its search is       *)
(* invoked at most max_attempts x max_retries x |search_terms| times in a  *)
(* run.                                                                    *)
(***************************************************************************)
C25_LayeredRetries ==
    [][/\ pc' = "running" => retry' \in 1..max_retries
       /\ (pc = "await" /\ pc' = "running") => retry' = 1
       /\ (pc = "running" /\ pc' = "running") => retry' = retry + 1
       /\ (pc = "running" /\ pc' = "suspended") => retry' = retry
       /\ (pc \in {"running", "suspended"} /\ pc' = "merge") =>
              \/ ~exhausted' /\ result' \in InFlight(tasks[taskIdx])
              \/ exhausted' /\ retry = max_retries /\ result' = << >>
       /\ pc' = "merge" => pc \in {"running", "suspended"}
       /\ \A p \in Range(scrapers) :
              /\ dispatched'[p] <= attempt' * Len(search_terms)
              /\ attempt' <= max_attempts
              /\ dispatched'[p] * max_retries <=
                     max_attempts * max_retries * Len(search_terms)]_vars

\* The last task of a platform in the last round is at its last invocation.
C25_Witness ==
    /\ pc = "running"
    /\ retry = max_retries
    /\ Len(search_terms) > 0
    /\ dispatched[tasks[taskIdx]] = max_attempts * Len(search_terms)

(***************************************************************************)
(* C21: the lists after the results of one term are merged do not depend   *)
(* on the order of the merges: each merge is MergeInto, and for the tasks  *)
(* of a term, whatever lists their searches return, merging the result of  *)
(* one platform before or after the result of another gives the same       *)
(* lists.                                                                  *)
(***************************************************************************)
C21_MergeCommutes ==
    [][/\ pc = "merge" =>
              platform_products' =
                  MergeInto(platform_products, tasks[taskIdx], result)
       /\ (pc = "terms" /\ pc' = "await") =>
              \A i, j \in 1..Len(tasks') :
                  i < j =>
                      \A bp \in Supply(tasks'[i]), bq \in Supply(tasks'[j]) :
                          MergeInto(MergeInto(platform_products,
                                              tasks'[i], bp), tasks'[j], bq)
                          = MergeInto(MergeInto(platform_products,
                                                tasks'[j], bq),
                                      tasks'[i], bp)]_vars

\* The second task of a term returned a record whose URL is in the list
\* of the first task's platform and not in the list of its own platform.
C21_Witness ==
    /\ pc = "merge"
    /\ taskIdx = 2
    /\ \E i \in 1..Len(result) :
           /\ result[i].url \in KeysOf(platform_products[tasks[1]])
           /\ result[i].url \notin KeysOf(platform_products[tasks[2]])

(***************************************************************************)
(* C27: the records without URL of one source all have the key of the      *)
(* empty URL: the list of a source holds at most one of them, the first    *)
(* that was merged, and a merge adds none when the list already holds one. *)
(***************************************************************************)
UrlLess(s) == {i \in 1..Len(s) : s[i].url = NoUrl}

C27_OneUrlLess ==
    [][\A p \in Range(scrapers) :
           /\ Cardinality(UrlLess(platform_products'[p])) <= 1
           /\ UrlLess(platform_products[p]) # {} =>
                  UrlLess(platform_products'[p]) = UrlLess(platform_products[p])
           /\ (pc = "merge" /\ p = tasks[taskIdx]
                 /\ UrlLess(platform_products[p]) = {}
                 /\ UrlLess(result) # {}) =>
                  \E i \in UrlLess(platform_products'[p]) :
                      \E k \in UrlLess(result) :
                          /\ \A m \in UrlLess(result) : k <= m
                          /\ platform_products'[p][i] = result[k]]_vars

\* The list holds a record without URL and a different record without URL
\* is about to be merged.
C27_Witness ==
    /\ pc = "merge"
    /\ \E i \in UrlLess(platform_products[tasks[taskIdx]]) :
           \E k \in UrlLess(result) :
               result[k].v # platform_products[tasks[taskIdx]][i].v

(***************************************************************************)
(* C30: run_mass_scraping starts at most max_cycles cycles and ends after  *)
(* the last of them even when no term brings a product; it scrapes no      *)
(* term once total_products has reached target_products; and after every   *)
(* term total_products is the length of all_products, every product of     *)
(* every term being stored and counted.                                    *)
(***************************************************************************)
C30_MassBounded ==
    /\ cycle_count <= max_cycles + 1
    /\ ms_pc \in {"for", "scrape", "pause", "cycle_end"} =>
           cycle_count <= max_cycles
    /\ cycle_count > max_cycles => ms_pc = "done"
    /\ term_i <= Len(ms_search_terms)
    /\ term_count <= max_cycles * Len(ms_search_terms)
    /\ term_count = successful_searches + failed_searches
                        + (IF ms_pc = "scrape" THEN 1 ELSE 0)
    /\ total_products >= target_products =>
           ~ENABLED DispatchTerm /\ ms_pc # "scrape"
    /\ total_products = Len(ms_all_products)
    /\ ms_pc = "done" =>
           /\ stats_total = total_products
           /\ total_products >= target_products \/ cycle_count > max_cycles
    /\ ms_pc = "done" \/ ENABLED MassNext

\* Ten cycles over two terms brought nothing and the run has ended.
C30_Witness ==
    /\ ms_pc = "done"
    /\ Len(ms_search_terms) = 2
    /\ target_products > 0
    /\ total_products = 0
    /\ failed_searches = max_cycles * Len(ms_search_terms)
    /\ cycle_count = max_cycles + 1

====
